---- MODULE Spec2Model ----
(***************************************************************************)
(* Model of the ZNC ident server module (identserv.cpp).                   *)
(*                                                                         *)
(* CIdentServerMod owns at most one listening CIdentServer, created on     *)
(* demand by OnIRCConnecting and dropped by NoLongerNeedsIdentServer.      *)
(* CIdentServer keeps the set of networks that currently need it and       *)
(* answers RFC 1413 queries (GetResponse) read by CIdentAcceptedSocket.    *)
(*                                                                         *)
(* Strings that the code takes apart (request lines, IP addresses) are     *)
(* sequences of one-character strings; strings that are only assembled     *)
(* (replies, diagnostics) are TLA+ strings.                                *)
(***************************************************************************)
EXTENDS Integers, Sequences, FiniteSets, TLC

VARIABLES
    m_identServer,    \* CIdentServerMod::m_identServer: NULL or the live listener
    m_activeUsers,    \* CIdentServer::m_activeUsers of the live listener
    m_listenFailed,   \* CIdentServerMod::m_listenFailed
    m_sLastReply,     \* CIdentServerMod::m_sLastReply
    m_sLastRequest,   \* CIdentServerMod::m_sLastRequest
    closingListener,  \* a listener that was Close()d and is not yet reaped
    conns,            \* the CIdentAcceptedSocket objects, by connection id
    hostFaulted,      \* the process dereferenced a null listener
    registry,         \* CZNC::Get().GetUserMap(): users, their networks' sockets
    lastOp,           \* the handler that ran last, its input and what it returned
    openEvents,       \* number of listeners opened so far
    closeEvents       \* number of listeners closed so far

vars == <<m_identServer, m_activeUsers, m_listenFailed, m_sLastReply,
          m_sLastRequest, closingListener, conns, hostFaulted, registry,
          lastOp, openEvents, closeEvents>>

(***************************************************************************)
(* Bounds of the model.                                                    *)
(***************************************************************************)
NumNetworks == 3      \* networks that can ask for the listener
MaxConns == 1         \* ident connections in the lifecycle specification
MaxEvents == 2        \* listeners opened in one behaviour
MaxUsers == 2         \* users in the registry of the resolver specification
MaxNets == 2          \* networks per user in the registry

NULL == "NULL"
Listener == "CIdentServer"

Networks == 1..NumNetworks
ConnIds == 1..MaxConns

\* The user that owns a network (CIRCNetwork::GetUser).
OwnerOf(n) == 1 + (n % 2)
LifeUsers == {OwnerOf(n) : n \in Networks}

\* User.GetNetworks(): the user's networks, in vector order.
RECURSIVE NetworksUpTo(_, _)
NetworksUpTo(u, k) ==
    IF k = 0 THEN <<>>
    ELSE IF OwnerOf(k) = u THEN Append(NetworksUpTo(u, k - 1), k)
         ELSE NetworksUpTo(u, k - 1)
GetNetworks(u) == NetworksUpTo(u, NumNetworks)

(***************************************************************************)
(* Character strings.                                                      *)
(***************************************************************************)
Digits == <<"0", "1", "2", "3", "4", "5", "6", "7", "8", "9">>
IsDigit(c) == \E i \in 1..10 : Digits[i] = c
DigitVal(c) == (CHOOSE i \in 1..10 : Digits[i] = c) - 1
\* isspace() of the C locale.
IsSpace(c) == c \in {" ", "\t", "\n", "\r", "\f"}

\* The TLA+ string spelled by a sequence of characters.
RECURSIVE Str(_)
Str(s) == IF s = <<>> THEN "" ELSE Head(s) \o Str(Tail(s))

\* CString::Replace_n(sFrom, sTo) for a one-character sFrom.
RECURSIVE Replace_n(_, _, _)
Replace_n(s, from, to) ==
    IF s = <<>> THEN <<>>
    ELSE (IF Head(s) = from THEN to ELSE <<Head(s)>>) \o Replace_n(Tail(s), from, to)

\* CString::AsLower on the letters that occur in addresses.
LowerChar(c) ==
    CASE c = "F" -> "f"
      [] c = "A" -> "a"
      [] OTHER -> c
AsLower(s) == [i \in 1..Len(s) |-> LowerChar(s[i])]

\* CString::Equals(s), whose default is a case-insensitive comparison.
Equals(a, b) == AsLower(a) = AsLower(b)

\* CString::TrimPrefix_n(sPrefix): the string without one leading sPrefix.
StartsWith(s, p) == Len(s) >= Len(p) /\ SubSeq(s, 1, Len(p)) = p
TrimPrefix_n(s, p) ==
    IF StartsWith(s, p) THEN SubSeq(s, Len(p) + 1, Len(s)) ELSE s

MappedPrefix == <<":", ":", "f", "f", "f", "f", ":">>

AreIPStringsEqualFirstOnly(sIP1, sIP2) ==
    Equals(TrimPrefix_n(sIP1, MappedPrefix), sIP2)

\* CIdentServer::AreIPStringsEqual
AreIPStringsEqual(sIP1, sIP2) ==
    Equals(TrimPrefix_n(sIP1, MappedPrefix), TrimPrefix_n(sIP2, MappedPrefix))

(***************************************************************************)
(* sscanf(sLine, "%hu , %hu", &uLocalPort, &uRemotePort).                  *)
(***************************************************************************)
UShortRange == 65536    \* values of an unsigned short

\* First position at or after i that holds no white space (Len(s)+1 at the end).
RECURSIVE SkipSpace(_, _)
SkipSpace(s, i) ==
    IF i <= Len(s) /\ IsSpace(s[i]) THEN SkipSpace(s, i + 1) ELSE i

\* The digits from position i on, accumulated into an unsigned short.
RECURSIVE ScanDigits(_, _, _)
ScanDigits(s, i, acc) ==
    IF i <= Len(s) /\ IsDigit(s[i])
    THEN ScanDigits(s, i + 1, (acc * 10 + DigitVal(s[i])) % UShortRange)
    ELSE [val |-> acc, next |-> i]

\* The conversion %hu at position i: white space, an optional sign, digits.
\* st is "ok", "eof" (input ended before a digit) or "mismatch".
ScanHu(s, i) ==
    LET j == SkipSpace(s, i)
        signed == j <= Len(s) /\ s[j] \in {"+", "-"}
        k == IF signed THEN j + 1 ELSE j
        d == ScanDigits(s, k, 0)
    IN  IF j > Len(s) THEN [st |-> "eof", val |-> 0, next |-> j]
        ELSE IF d.next = k THEN [st |-> "mismatch", val |-> 0, next |-> j]
        ELSE [st |-> "ok",
              val |-> IF signed /\ s[j] = "-"
                      THEN (UShortRange - d.val) % UShortRange ELSE d.val,
              next |-> d.next]

\* n is sscanf's return value; the ports keep their initial 0 unless assigned.
Sscanf(sLine) ==
    LET a == ScanHu(sLine, 1)
        c == SkipSpace(sLine, a.next)
        b == ScanHu(sLine, SkipSpace(sLine, c + 1))
    IN  IF a.st = "eof" THEN [n |-> -1, uLocalPort |-> 0, uRemotePort |-> 0]
        ELSE IF a.st = "mismatch" THEN [n |-> 0, uLocalPort |-> 0, uRemotePort |-> 0]
        ELSE IF c > Len(sLine) \/ sLine[c] # ","
             THEN [n |-> 1, uLocalPort |-> a.val, uRemotePort |-> 0]
        ELSE IF b.st # "ok"
             THEN [n |-> 1, uLocalPort |-> a.val, uRemotePort |-> 0]
        ELSE [n |-> 2, uLocalPort |-> a.val, uRemotePort |-> b.val]

(***************************************************************************)
(* CIdentServer::GetResponse.                                              *)
(*                                                                         *)
(* The registry is the sequence of users in GetUserMap() order; a user is  *)
(* [sIdent, networks], networks being the sequence GetNetworks() of the    *)
(* sockets GetIRCSock() (present = FALSE for a network without a socket).  *)
(* q holds the parsed ports and the two addresses of the querying          *)
(* connection; acc holds sResponseType, sAddInfo and bFound.               *)
(***************************************************************************)
ExactMatch(pSock, q) ==
    /\ pSock.localPort = q.uLocalPort
    /\ pSock.remotePort = q.uRemotePort
    /\ AreIPStringsEqual(pSock.localIP, q.sSocketIP)

FallbackMatch(pSock, q) ==
    /\ pSock.remoteIP = q.sRemoteIP
    /\ pSock.remotePort = q.uRemotePort
    /\ AreIPStringsEqual(pSock.localIP, q.sSocketIP)

UserId(sIdent, bFound) ==
    [sResponseType |-> "USERID", sAddInfo |-> "UNIX : " \o sIdent, bFound |-> bFound]

\* Mutant: the exact match does not leave the loops.
CheckSockNoBreak(pSock, sIdent, q, acc) ==
    IF ~pSock.present THEN acc
    ELSE IF ExactMatch(pSock, q) THEN UserId(sIdent, FALSE)
    ELSE IF FallbackMatch(pSock, q) THEN UserId(sIdent, FALSE)
    ELSE acc

\* Mutant: a fallback match is kept only when nothing was found before it.
CheckSockFirstFallback(pSock, sIdent, q, acc) ==
    IF ~pSock.present THEN acc
    ELSE IF ExactMatch(pSock, q) THEN UserId(sIdent, TRUE)
    ELSE IF FallbackMatch(pSock, q) /\ acc.sResponseType # "USERID"
         THEN UserId(sIdent, FALSE)
    ELSE acc

\* Mutant: only an exact match is taken.
CheckSockNoFallback(pSock, sIdent, q, acc) ==
    IF ~pSock.present THEN acc
    ELSE IF ExactMatch(pSock, q) THEN UserId(sIdent, TRUE)
    ELSE acc

\* The body of the loop over a user's networks.
CheckSock(pSock, sIdent, q, acc) ==
    IF ~pSock.present THEN acc
    ELSE IF ExactMatch(pSock, q) THEN UserId(sIdent, TRUE)
    ELSE IF FallbackMatch(pSock, q) THEN UserId(sIdent, FALSE)
    ELSE acc

\* for(CIRCNetwork* pNetwork : pUser->GetNetworks()), from network k on.
RECURSIVE ScanNetworks(_, _, _, _, _)
ScanNetworks(networks, k, sIdent, q, acc) ==
    IF k > Len(networks) THEN acc
    ELSE LET r == CheckSock(networks[k], sIdent, q, acc)
         IN  IF r.bFound THEN r ELSE ScanNetworks(networks, k + 1, sIdent, q, r)

\* Mutant: the loop over the users goes on after an exact match.
RECURSIVE ScanUsersNoBreak(_, _, _, _)
ScanUsersNoBreak(userMap, u, q, acc) ==
    IF u > Len(userMap) THEN acc
    ELSE ScanUsersNoBreak(userMap, u + 1, q,
            ScanNetworks(userMap[u].networks, 1, userMap[u].sIdent, q,
                         [acc EXCEPT !.bFound = FALSE]))

\* for(itu = GetUserMap().begin(); ...), from user u on.
RECURSIVE ScanUsers(_, _, _, _)
ScanUsers(userMap, u, q, acc) ==
    IF u > Len(userMap) THEN acc
    ELSE LET r == ScanNetworks(userMap[u].networks, 1, userMap[u].sIdent, q,
                               [acc EXCEPT !.bFound = FALSE])
         IN  IF r.bFound THEN r ELSE ScanUsers(userMap, u + 1, q, r)

\* The locals of GetResponse when it reaches its return statement.
GetResponseLocals(userMap, sLine, sSocketIP, sRemoteIP) ==
    LET sc == Sscanf(sLine)
        q == [uLocalPort |-> sc.uLocalPort, uRemotePort |-> sc.uRemotePort,
              sSocketIP |-> sSocketIP, sRemoteIP |-> sRemoteIP]
        r == IF sc.n = 2
             THEN ScanUsers(userMap, 1, q,
                     [sResponseType |-> "ERROR", sAddInfo |-> "NO-USER",
                      bFound |-> FALSE])
             ELSE [sResponseType |-> "ERROR", sAddInfo |-> "INVALID-PORT",
                   bFound |-> FALSE]
    IN  [uLocalPort |-> sc.uLocalPort, uRemotePort |-> sc.uRemotePort,
         sResponseType |-> r.sResponseType, sAddInfo |-> r.sAddInfo,
         sReply |-> ToString(sc.uLocalPort) \o ", " \o ToString(sc.uRemotePort)
                    \o " : " \o r.sResponseType \o " : " \o r.sAddInfo]

\* The string GetResponse returns.
GetResponse(userMap, sLine, sSocketIP, sRemoteIP) ==
    GetResponseLocals(userMap, sLine, sSocketIP, sRemoteIP).sReply

\* The argument of SetLastRequest.
LastRequestOf(sLine, sSocketIP, sRemoteIP) ==
    Str(Replace_n(Replace_n(sLine, "\r", <<>>), "\n", <<" ">>))
        \o "from " \o Str(sRemoteIP) \o " on " \o Str(sSocketIP)

(***************************************************************************)
(* The listener's lifecycle.  st is the part of the module's state that    *)
(* the lifecycle handlers read and write: m_identServer, m_activeUsers,    *)
(* m_listenFailed, closingListener, openEvents, closeEvents.               *)
(***************************************************************************)

\* Mutant: the network is inserted without the membership test's result.
IncreaseUseCountAlways(activeUsers, pUser) ==
    [users |-> activeUsers \cup {pUser}, ret |-> TRUE]

\* CIdentServer::IncreaseUseCount: the new set and the value returned.
IncreaseUseCount(activeUsers, pUser) ==
    IF pUser \in activeUsers
    THEN [users |-> activeUsers, ret |-> FALSE]
    ELSE [users |-> activeUsers \cup {pUser}, ret |-> TRUE]

\* CIdentServer::DecreaseUseCount: the new set and the value returned.
DecreaseUseCount(activeUsers, pUser) ==
    [users |-> activeUsers \ {pUser}, ret |-> pUser \in activeUsers]

\* CIdentServer::InUse
InUse(activeUsers) == activeUsers # {}

\* CIdentServer::StartListening: ListenAll binds the port.  It fails when
\* the port is taken by somebody else (~bPortFree) and, unless the platform
\* lets a second socket bind a port that is being listened on (bRebind),
\* when a listener that was Close()d still holds the port.
StartListening(st, bPortFree, bRebind) ==
    bPortFree /\ (~st.closingListener \/ bRebind)

\* Mutant: m_listenFailed is not reset by a successful bind.
OnIRCConnectingKeepFlag(st, pNetwork, bPortFree, bRebind) ==
    IF st.m_identServer = NULL /\ ~StartListening(st, bPortFree, bRebind)
    THEN [st |-> [st EXCEPT !.m_listenFailed = TRUE], bind |-> "failed", ret |-> "none"]
    ELSE LET inc == IncreaseUseCount(IF st.m_identServer = NULL THEN {}
                                        ELSE st.m_activeUsers, pNetwork)
         IN  [st |-> [st EXCEPT !.m_identServer = Listener,
                                !.m_activeUsers = inc.users,
                                !.openEvents = IF st.m_identServer = NULL
                                               THEN @ + 1 ELSE @],
              bind |-> IF st.m_identServer = NULL THEN "ok" ELSE "none",
              ret |-> IF inc.ret THEN "true" ELSE "false"]

\* Mutant: the network is registered although the bind failed.
OnIRCConnectingAddOnFailure(st, pNetwork, bPortFree, bRebind) ==
    IF st.m_identServer = NULL /\ ~StartListening(st, bPortFree, bRebind)
    THEN [st |-> [st EXCEPT !.m_listenFailed = TRUE,
                            !.m_activeUsers = {pNetwork}],
          bind |-> "failed", ret |-> "none"]
    ELSE LET inc == IncreaseUseCount(IF st.m_identServer = NULL THEN {}
                                        ELSE st.m_activeUsers, pNetwork)
         IN  [st |-> [st EXCEPT !.m_identServer = Listener,
                                !.m_activeUsers = inc.users,
                                !.m_listenFailed =
                                    IF st.m_identServer = NULL THEN FALSE ELSE @,
                                !.openEvents = IF st.m_identServer = NULL
                                               THEN @ + 1 ELSE @],
              bind |-> IF st.m_identServer = NULL THEN "ok" ELSE "none",
              ret |-> IF inc.ret THEN "true" ELSE "false"]

\* CIdentServerMod::OnIRCConnecting with m_pNetwork = pNetwork: the new
\* state, the outcome of the bind ("none" when no bind was attempted) and
\* what IncreaseUseCount returned ("none" when it was not called).
OnIRCConnectingBody(st, pNetwork, bPortFree, bRebind) ==
    IF st.m_identServer = NULL /\ ~StartListening(st, bPortFree, bRebind)
    THEN [st |-> [st EXCEPT !.m_listenFailed = TRUE], bind |-> "failed", ret |-> "none"]
    ELSE LET inc == IncreaseUseCount(IF st.m_identServer = NULL THEN {}
                                        ELSE st.m_activeUsers, pNetwork)
         IN  [st |-> [st EXCEPT !.m_identServer = Listener,
                                !.m_activeUsers = inc.users,
                                !.m_listenFailed =
                                    IF st.m_identServer = NULL THEN FALSE ELSE @,
                                !.openEvents = IF st.m_identServer = NULL
                                               THEN @ + 1 ELSE @],
              bind |-> IF st.m_identServer = NULL THEN "ok" ELSE "none",
              ret |-> IF inc.ret THEN "true" ELSE "false"]

\* Mutant: the listener is closed although networks still use it.
NoLongerNeedsIdentServerNoInUse(st, pNetwork) ==
    IF st.m_identServer # NULL
    THEN [st |-> [st EXCEPT !.m_identServer = NULL,
                            !.m_activeUsers = {},
                            !.closingListener = TRUE,
                            !.closeEvents = @ + 1],
          ret |-> IF pNetwork \in st.m_activeUsers THEN "true" ELSE "false",
          closed |-> TRUE]
    ELSE [st |-> st, ret |-> "none", closed |-> FALSE]

\* Mutant: the listener stays open when its last network is gone.
NoLongerNeedsIdentServerNoClose(st, pNetwork) ==
    IF st.m_identServer # NULL
    THEN LET dec == DecreaseUseCount(st.m_activeUsers, pNetwork)
         IN  [st |-> [st EXCEPT !.m_activeUsers = dec.users],
              ret |-> IF dec.ret THEN "true" ELSE "false", closed |-> FALSE]
    ELSE [st |-> st, ret |-> "none", closed |-> FALSE]

\* CIdentServerMod::NoLongerNeedsIdentServer with m_pNetwork = pNetwork: the
\* new state, what DecreaseUseCount returned ("none" when it was not called)
\* and whether the listener was closed.  Close() marks the listening socket
\* for closing; the socket manager closes it in its next loop.  The set
\* of a closed listener is empty and is not modelled further.
NoLongerNeedsIdentServer(st, pNetwork) ==
    IF st.m_identServer # NULL
    THEN LET dec == DecreaseUseCount(st.m_activeUsers, pNetwork)
         IN  IF ~InUse(dec.users)
             THEN [st |-> [st EXCEPT !.m_identServer = NULL,
                                     !.m_activeUsers = {},
                                     !.closingListener = TRUE,
                                     !.closeEvents = @ + 1],
                   ret |-> IF dec.ret THEN "true" ELSE "false", closed |-> TRUE]
             ELSE [st |-> [st EXCEPT !.m_activeUsers = dec.users],
                   ret |-> IF dec.ret THEN "true" ELSE "false", closed |-> FALSE]
    ELSE [st |-> st, ret |-> "none", closed |-> FALSE]

\* Mutant: the loop ends after the user's first network.
DeleteUserLoopFirstOnly(r, networks, k) ==
    IF k > Len(networks) THEN r
    ELSE LET one == NoLongerNeedsIdentServer(r.st, networks[k])
         IN  [st |-> one.st,
              ret |-> IF one.ret = "none" THEN r.ret ELSE one.ret,
              closed |-> r.closed \/ one.closed]

\* The loop of OnDeleteUser over User.GetNetworks(), from network k on.
RECURSIVE DeleteUserLoop(_, _, _)
DeleteUserLoop(r, networks, k) ==
    IF k > Len(networks) THEN r
    ELSE LET one == NoLongerNeedsIdentServer(r.st, networks[k])
         IN  DeleteUserLoop([st |-> one.st,
                             ret |-> IF one.ret = "none" THEN r.ret ELSE one.ret,
                             closed |-> r.closed \/ one.closed],
                            networks, k + 1)

(***************************************************************************)
(* Inputs.                                                                 *)
(***************************************************************************)
IpA == <<"1", "0", ".", "0", ".", "0", ".", "5">>
IpB == <<"1", "0", ".", "0", ".", "0", ".", "6">>
IpAMapped == MappedPrefix \o IpA
RemoteA == <<"1", ".", "2", ".", "3", ".", "4">>
RemoteB == <<"1", ".", "2", ".", "3", ".", "5">>

NoSock == [present |-> FALSE, localPort |-> 0, remotePort |-> 0,
           localIP |-> <<>>, remoteIP |-> <<>>]
SockA == [present |-> TRUE, localPort |-> 6667, remotePort |-> 6697,
          localIP |-> IpAMapped, remoteIP |-> RemoteA]
SockB == [present |-> TRUE, localPort |-> 6668, remotePort |-> 6697,
          localIP |-> IpA, remoteIP |-> RemoteA]
SockC == [present |-> TRUE, localPort |-> 6667, remotePort |-> 6697,
          localIP |-> IpA, remoteIP |-> RemoteB]
SockD == [present |-> TRUE, localPort |-> 6668, remotePort |-> 6698,
          localIP |-> IpB, remoteIP |-> RemoteB]
Socks == {SockA, SockB, SockC, SockD}

Idents == <<"alice", "bob", "carol", "dave">>

\* The registries of MaxUsers users with MaxNets networks each, in which
\* no two networks hold the same connection.
Slots == (1..MaxUsers) \X (1..MaxNets)
Registries ==
    { [u \in 1..MaxUsers |->
          [sIdent |-> Idents[u],
           networks |-> [k \in 1..MaxNets |-> f[<<u, k>>]]]] :
      f \in { g \in [Slots -> Socks \cup {NoSock}] :
                \A a, b \in Slots : g[a].present /\ g[a] = g[b] => a = b } }

\* The registries of the lifecycle specification.
LifeRegistries ==
    { << [sIdent |-> "alice", networks |-> <<SockB, SockA>>],
         [sIdent |-> "bob", networks |-> <<NoSock, SockC>>] >> }

\* The addresses given to AreIPStringsEqual: IPv4, IPv4 mapped into IPv6
\* once and twice, an IPv6 address in small and in capital letters, the
\* bare prefix and the empty string.
IpBMapped == MappedPrefix \o IpB
IpAMappedTwice == MappedPrefix \o IpAMapped
Ip6Low == <<"f", "a", ":", ":", "a">>
Ip6Up == <<"F", "A", ":", ":", "A">>
Ip6LowMapped == MappedPrefix \o Ip6Low
Addrs == {IpA, IpB, IpAMapped, IpBMapped, IpAMappedTwice, Ip6Low, Ip6Up,
          Ip6LowMapped, MappedPrefix, <<>>}

\* The registries with one IRC socket, bound to the address sLocalIP.
AddrRegistry(sLocalIP) ==
    << [sIdent |-> "alice",
        networks |-> << [present |-> TRUE, localPort |-> 6667,
                         remotePort |-> 6697, localIP |-> sLocalIP,
                         remoteIP |-> RemoteA] >>] >>


LineExact == <<"6", "6", "6", "7", ",", " ", "6", "6", "9", "7">>
LineOther == <<"6", "6", "6", "8", " ", ",", "6", "6", "9", "7", "\r">>
LineFallback == <<"6", "6", "6", "9", ",", "6", "6", "9", "7">>
LineNoComma == <<"6", "6", "6", "7", " ", "6", "6", "9", "7">>
LineJunk == <<"x">>
LineTrailing == <<"6", "6", "6", "7", ",", "6", "6", "9", "7", " ", "x">>
LineWrap == <<"7", "2", "2", "0", "3", ",", "6", "6", "9", "7">>
Lines == {LineExact, LineOther, LineFallback, LineNoComma, LineJunk,
          LineTrailing, LineWrap}
LifeLines == {LineExact, LineJunk}
SocketIPs == {IpA, IpB}
RemoteIPs == {RemoteA, RemoteB}

(***************************************************************************)
(* State.                                                                  *)
(***************************************************************************)
ModState ==
    [m_identServer |-> m_identServer, m_activeUsers |-> m_activeUsers,
     m_listenFailed |-> m_listenFailed, closingListener |-> closingListener,
     openEvents |-> openEvents, closeEvents |-> closeEvents]

SetModState(st) ==
    /\ m_identServer' = st.m_identServer
    /\ m_activeUsers' = st.m_activeUsers
    /\ m_listenFailed' = st.m_listenFailed
    /\ closingListener' = st.closingListener
    /\ openEvents' = st.openEvents
    /\ closeEvents' = st.closeEvents

modVars == <<m_identServer, m_activeUsers, m_listenFailed, closingListener,
             openEvents, closeEvents>>

NoConn == [st |-> "none", sLocalIP |-> <<>>, sRemoteIP |-> <<>>,
           sLine |-> <<>>, wire |-> <<>>]

\* What a handler leaves in lastOp: its name, its argument (a network, a
\* user or a connection), the outcome of the bind, the value returned by
\* IncreaseUseCount or DecreaseUseCount, whether Close() was called, the
\* lines given to PutModule, whether the port was free of other processes
\* and whether a closed listener was still waiting for the socket manager.
Op(op, arg) ==
    [op |-> op, arg |-> arg, bind |-> "none", ret |-> "none", closed |-> FALSE,
     out |-> <<>>, bPortFree |-> TRUE, wasClosing |-> FALSE]

Warning == <<"WARNING: Opening the listening socket failed!">>

(***************************************************************************)
(* Handlers of CIdentServerMod.                                            *)
(***************************************************************************)

\* OnIRCConnecting for the network pNetwork.
OnIRCConnecting(pNetwork, bPortFree, bRebind) ==
    /\ ~hostFaulted
    /\ LET r == OnIRCConnectingBody(ModState, pNetwork, bPortFree, bRebind)
       IN  /\ r.st.openEvents <= MaxEvents
           /\ SetModState(r.st)
           /\ lastOp' = [Op("OnIRCConnecting", pNetwork) EXCEPT
                            !.bind = r.bind, !.ret = r.ret,
                            !.bPortFree = (r.bind = "none") \/ bPortFree,
                            !.wasClosing = (r.bind # "none") /\ closingListener]
    /\ UNCHANGED <<m_sLastReply, m_sLastRequest, conns, hostFaulted, registry>>

\* OnIRCConnected for the network pNetwork; bClient is m_pClient != NULL.
OnIRCConnected(pNetwork, bClient) ==
    /\ ~hostFaulted
    /\ LET r == NoLongerNeedsIdentServer(ModState, pNetwork)
       IN  /\ SetModState(r.st)
           /\ lastOp' = [Op("OnIRCConnected", pNetwork) EXCEPT
                            !.ret = r.ret, !.closed = r.closed,
                            !.out = IF ~bClient /\ m_listenFailed
                                    THEN Warning ELSE <<>>]
    /\ UNCHANGED <<m_sLastReply, m_sLastRequest, conns, hostFaulted, registry>>

\* OnIRCDisconnected for the network pNetwork.
OnIRCDisconnected(pNetwork) ==
    /\ ~hostFaulted
    /\ LET r == NoLongerNeedsIdentServer(ModState, pNetwork)
       IN  /\ SetModState(r.st)
           /\ lastOp' = [Op("OnIRCDisconnected", pNetwork) EXCEPT
                            !.ret = r.ret, !.closed = r.closed]
    /\ UNCHANGED <<m_sLastReply, m_sLastRequest, conns, hostFaulted, registry>>

\* OnDeleteUser for the user User.
OnDeleteUser(User) ==
    /\ ~hostFaulted
    /\ LET r == DeleteUserLoop([st |-> ModState, ret |-> "none", closed |-> FALSE],
                               GetNetworks(User), 1)
       IN  /\ SetModState(r.st)
           /\ lastOp' = [Op("OnDeleteUser", User) EXCEPT
                            !.ret = r.ret, !.closed = r.closed]
    /\ UNCHANGED <<m_sLastReply, m_sLastRequest, conns, hostFaulted, registry>>

\* OnDeleteNetwork for the network Network.
OnDeleteNetwork(Network) ==
    /\ ~hostFaulted
    /\ LET r == NoLongerNeedsIdentServer(ModState, Network)
       IN  /\ SetModState(r.st)
           /\ lastOp' = [Op("OnDeleteNetwork", Network) EXCEPT
                            !.ret = r.ret, !.closed = r.closed]
    /\ UNCHANGED <<m_sLastReply, m_sLastRequest, conns, hostFaulted, registry>>

\* OnClientLogin
OnClientLogin ==
    /\ ~hostFaulted
    /\ lastOp' = [Op("OnClientLogin", 0) EXCEPT
                     !.out = IF m_listenFailed THEN Warning ELSE <<>>]
    /\ UNCHANGED <<modVars, m_sLastReply, m_sLastRequest, conns, hostFaulted,
                   registry>>

\* The lines OnModCommand gives to PutModule.
ModCommandOutput(sCommand, bAdmin) ==
    IF sCommand = "HELP" THEN <<"Table">>
    ELSE IF sCommand = "STATUS"
    THEN (IF m_identServer # NULL
          THEN <<"IdentServer is listening on">>
               \o (IF bAdmin THEN <<"List of active users/networks:">> ELSE <<>>)
          ELSE (IF m_listenFailed THEN Warning ELSE <<>>)
               \o <<"IdentServer isn't listening.">>)
         \o (IF bAdmin
             THEN <<"Last IDENT request: " \o m_sLastRequest,
                    "Last IDENT reply: " \o m_sLastReply>>
             ELSE <<>>)
    ELSE <<"Unknown command">>

\* OnModCommand; bAdmin is m_pUser->IsAdmin().
OnModCommand(sCommand, bAdmin) ==
    /\ ~hostFaulted
    /\ lastOp' = [Op("OnModCommand", 0) EXCEPT
                     !.out = ModCommandOutput(sCommand, bAdmin)]
    /\ UNCHANGED <<modVars, m_sLastReply, m_sLastRequest, conns, hostFaulted,
                   registry>>

(***************************************************************************)
(* The socket manager and the ident connections.                           *)
(***************************************************************************)

\* The socket manager's loop closes the listener that was marked by Close().
SocketManagerLoop ==
    /\ ~hostFaulted
    /\ closingListener
    /\ closingListener' = FALSE
    /\ lastOp' = Op("SocketManagerLoop", 0)
    /\ UNCHANGED <<m_identServer, m_activeUsers, m_listenFailed, openEvents,
                   closeEvents, m_sLastReply, m_sLastRequest, conns, hostFaulted,
                   registry>>

\* Mutant: every connection is kept.
ConnectionFromAlways(activeUsers) == TRUE

\* CIdentServer::ConnectionFrom
ConnectionFrom(activeUsers) == activeUsers # {}

\* A peer connects to the port.  The connection reaches the live listener
\* or the one that is still waiting to be closed, whose set is empty;
\* GetSockObj makes the CIdentAcceptedSocket, ConnectionFrom keeps or drops it.
Accept(c, bLive, sLocalIP, sRemoteIP) ==
    /\ ~hostFaulted
    /\ conns[c].st = "none"
    /\ IF bLive THEN m_identServer # NULL ELSE closingListener
    /\ conns' = [conns EXCEPT ![c] =
                    IF ConnectionFrom(IF bLive THEN m_activeUsers ELSE {})
                    THEN [NoConn EXCEPT !.st = "accepted",
                                        !.sLocalIP = sLocalIP,
                                        !.sRemoteIP = sRemoteIP]
                    ELSE [NoConn EXCEPT !.st = "rejected"]]
    /\ lastOp' = Op("Accept", c)
    /\ UNCHANGED <<modVars, m_sLastReply, m_sLastRequest, hostFaulted, registry>>

\* The members of CIdentServerMod.
ModMembers ==
    [m_identServer |-> m_identServer, m_listenFailed |-> m_listenFailed,
     m_sLastReply |-> m_sLastReply, m_sLastRequest |-> m_sLastRequest]

\* Mutant: the resolver also raises the flag of a failed bind.
SetLastSetsFlag(mod, sRequest, sReply) ==
    [mod EXCEPT !.m_sLastRequest = sRequest, !.m_sLastReply = sReply,
                !.m_listenFailed = TRUE]

\* What GetResponse writes besides its result: SetLastRequest and
\* SetLastReply of the module.
SetLast(mod, sRequest, sReply) ==
    [mod EXCEPT !.m_sLastRequest = sRequest, !.m_sLastReply = sReply]

\* Mutant: the reply is written and the connection is left open.
ReadLineSockNoClose(sock, sLine, sReply) ==
    [sock EXCEPT !.sLine = sLine, !.wire = Append(@, sReply \o "\r\n")]

\* Write(sReply + "\r\n"); Close(CLT_AFTERWRITE) on the accepted socket.
ReadLineSock(sock, sLine, sReply) ==
    [sock EXCEPT !.st = "closed", !.sLine = sLine,
                 !.wire = Append(@, sReply \o "\r\n")]

\* CIdentAcceptedSocket::ReadLine on connection c.  Csocket hands lines to
\* ReadLine only while no close was asked for, so a socket that is closed
\* reads no further line.  With m_identServer NULL the call of GetResponse
\* is made through a null pointer, which is undefined: the process faults
\* at the read of m_pModule (bFault), or the reply is computed and the
\* module's slots are not reached.
ReadLine(c, sLine, bFault) ==
    /\ ~hostFaulted
    /\ conns[c].st = "accepted"
    /\ LET sReply == GetResponse(registry, sLine, conns[c].sLocalIP,
                                 conns[c].sRemoteIP)
           mod == IF m_identServer = NULL
                  THEN ModMembers
                  ELSE SetLast(ModMembers,
                               LastRequestOf(sLine, conns[c].sLocalIP,
                                             conns[c].sRemoteIP),
                               sReply)
       IN  /\ hostFaulted' = (m_identServer = NULL /\ bFault)
           /\ conns' = [conns EXCEPT ![c] =
                           IF m_identServer = NULL /\ bFault
                           THEN [@ EXCEPT !.st = "faulted", !.sLine = sLine]
                           ELSE ReadLineSock(@, sLine, sReply)]
           /\ m_identServer' = mod.m_identServer
           /\ m_listenFailed' = mod.m_listenFailed
           /\ m_sLastReply' = mod.m_sLastReply
           /\ m_sLastRequest' = mod.m_sLastRequest
    /\ lastOp' = Op("ReadLine", c)
    /\ UNCHANGED <<m_activeUsers, closingListener, openEvents, closeEvents,
                   registry>>

(***************************************************************************)
(* Specifications.                                                         *)
(***************************************************************************)

\* The module after construction.
Init ==
    /\ m_identServer = NULL
    /\ m_activeUsers = {}
    /\ m_listenFailed = FALSE
    /\ m_sLastReply = ""
    /\ m_sLastRequest = ""
    /\ closingListener = FALSE
    /\ conns = [c \in ConnIds |-> NoConn]
    /\ hostFaulted = FALSE
    /\ registry \in LifeRegistries
    /\ lastOp = Op("Init", 0)
    /\ openEvents = 0
    /\ closeEvents = 0

\* Inputs that a handler does not read in the current state are fixed.
Next ==
    \/ \E n \in Networks,
          bPortFree \in (IF m_identServer = NULL THEN BOOLEAN ELSE {TRUE}),
          bRebind \in (IF closingListener /\ m_identServer = NULL
                       THEN BOOLEAN ELSE {TRUE}) :
          OnIRCConnecting(n, bPortFree, bRebind)
    \/ \E n \in Networks,
          bClient \in (IF m_listenFailed THEN BOOLEAN ELSE {TRUE}) :
          OnIRCConnected(n, bClient)
    \/ \E n \in Networks : OnIRCDisconnected(n)
    \/ \E u \in LifeUsers : OnDeleteUser(u)
    \/ \E n \in Networks : OnDeleteNetwork(n)
    \/ OnClientLogin
    \/ \E sCommand \in {"HELP", "STATUS", "FOO"} :
          \E bAdmin \in (IF sCommand = "STATUS" THEN BOOLEAN ELSE {FALSE}) :
             OnModCommand(sCommand, bAdmin)
    \/ SocketManagerLoop
    \/ \E c \in ConnIds, bLive \in BOOLEAN : Accept(c, bLive, IpA, RemoteA)
    \/ \E c \in ConnIds, sLine \in LifeLines,
          bFault \in (IF m_identServer = NULL THEN BOOLEAN ELSE {FALSE}) :
          ReadLine(c, sLine, bFault)

Spec == Init /\ [][Next]_vars

\* The resolver: a listener is open, connection 1 was accepted, and its
\* request line is read against every registry of the bounds.
InitResolve ==
    /\ m_identServer = Listener
    /\ m_activeUsers = {1}
    /\ m_listenFailed = FALSE
    /\ m_sLastReply = ""
    /\ m_sLastRequest = ""
    /\ closingListener = FALSE
    /\ \E sLocalIP \in SocketIPs, sRemoteIP \in RemoteIPs :
          conns = [c \in ConnIds |->
                      IF c = 1
                      THEN [NoConn EXCEPT !.st = "accepted",
                                          !.sLocalIP = sLocalIP,
                                          !.sRemoteIP = sRemoteIP]
                      ELSE NoConn]
    /\ hostFaulted = FALSE
    /\ registry \in Registries
    /\ lastOp = Op("Accept", 1)
    /\ openEvents = 1
    /\ closeEvents = 0

NextResolve ==
    \E c \in ConnIds, sLine \in Lines : ReadLine(c, sLine, FALSE)

SpecResolve == InitResolve /\ [][NextResolve]_vars

\* The comparison of addresses: a listener is open, connection 1 was
\* accepted on one address, the one IRC socket of the registry is bound to
\* another, and the ports of the request are those of the IRC socket.
InitAddr ==
    /\ m_identServer = Listener
    /\ m_activeUsers = {1}
    /\ m_listenFailed = FALSE
    /\ m_sLastReply = ""
    /\ m_sLastRequest = ""
    /\ closingListener = FALSE
    /\ \E sLocalIP \in Addrs :
          conns = [c \in ConnIds |->
                      IF c = 1
                      THEN [NoConn EXCEPT !.st = "accepted",
                                          !.sLocalIP = sLocalIP,
                                          !.sRemoteIP = RemoteA]
                      ELSE NoConn]
    /\ hostFaulted = FALSE
    /\ \E sLocalIP \in Addrs : registry = AddrRegistry(sLocalIP)
    /\ lastOp = Op("Accept", 1)
    /\ openEvents = 1
    /\ closeEvents = 0

NextAddr == \E c \in ConnIds : ReadLine(c, LineExact, FALSE)

SpecAddr == InitAddr /\ [][NextAddr]_vars

(***************************************************************************)
(* Properties of the lifecycle (specification Spec).                       *)
(***************************************************************************)
DeregisterOps == {"OnIRCConnected", "OnIRCDisconnected", "OnDeleteNetwork"}

\* C1: in every reachable state the listener is open (m_identServer is
\* not NULL) if and only if the set m_activeUsers is not empty.
C1_OpenIffInUse == (m_identServer # NULL) <=> (m_activeUsers # {})

\* C1 witness: OnDeleteUser has just removed the last network and closed
\* the listener.
C1_Witness ==
    /\ lastOp.op = "OnDeleteUser"
    /\ lastOp.closed
    /\ m_identServer = NULL
    /\ m_activeUsers = {}

\* C2: a listener is opened by exactly the steps that take the set from
\* empty to one network (an OnIRCConnecting) and closed by exactly the steps
\* that take it from non-empty to empty (from one network, for the handlers
\* that remove one network); no step opens or closes more than one, so the
\* listeners opened exceed the listeners closed by one exactly while the
\* set is non-empty.
C2_OpenCloseOnTransitions ==
    /\ [](openEvents = closeEvents + (IF m_activeUsers # {} THEN 1 ELSE 0))
    /\ [][ /\ openEvents' \in {openEvents, openEvents + 1}
           /\ closeEvents' \in {closeEvents, closeEvents + 1}
           /\ (openEvents' = openEvents + 1) <=>
                 (m_activeUsers = {} /\ m_activeUsers' # {})
           /\ (openEvents' = openEvents + 1) =>
                 /\ lastOp'.op = "OnIRCConnecting"
                 /\ lastOp'.bind = "ok"
                 /\ Cardinality(m_activeUsers') = 1
           /\ (closeEvents' = closeEvents + 1) <=>
                 (m_activeUsers # {} /\ m_activeUsers' = {})
           /\ (closeEvents' = closeEvents + 1) =>
                 /\ lastOp'.closed
                 /\ lastOp'.op \in DeregisterOps \cup {"OnDeleteUser"}
                 /\ lastOp'.op \in DeregisterOps => Cardinality(m_activeUsers) = 1
         ]_vars

\* C2 witness: every network was registered under one listener.
C2_Witness ==
    /\ m_activeUsers = Networks
    /\ openEvents = 1
    /\ closeEvents = 0

\* C3: after an OnIRCConnecting whose bind failed the listener is closed,
\* the network is not in the set and m_listenFailed is set.
C3_BindFailure ==
    (lastOp.op = "OnIRCConnecting" /\ lastOp.bind = "failed") =>
        /\ m_identServer = NULL
        /\ lastOp.arg \notin m_activeUsers
        /\ m_listenFailed

\* C3 witness: a bind has just failed after an earlier listener was closed.
C3_Witness ==
    /\ lastOp.op = "OnIRCConnecting"
    /\ lastOp.bind = "failed"
    /\ closeEvents = 1

\* C4: m_listenFailed goes from true to false only in an OnIRCConnecting
\* whose bind succeeded, and is false after every such step; a bind is
\* attempted only by an OnIRCConnecting that finds the set empty; while the
\* flag is set there is no listener, so STATUS shows the warning.
C4_FlagSticky ==
    /\ [](m_listenFailed => m_identServer = NULL)
    /\ [][ /\ (m_listenFailed /\ ~m_listenFailed') =>
                 (lastOp'.op = "OnIRCConnecting" /\ lastOp'.bind = "ok")
           /\ (lastOp'.bind = "ok") => ~m_listenFailed'
           /\ (lastOp'.bind = "failed") => m_listenFailed'
           /\ (lastOp'.bind # "none") =>
                 (lastOp'.op = "OnIRCConnecting" /\ m_activeUsers = {})
         ]_vars

\* C4 witness: the flag is still set when an administrator's STATUS is answered
\* after an earlier listener was closed.
C4_Witness ==
    /\ m_listenFailed
    /\ closeEvents = 1
    /\ lastOp.op = "OnModCommand"
    /\ Len(lastOp.out) = 4
    /\ lastOp.out[1] = Warning[1]

\* C5: an OnIRCConnecting that runs while a closed listener still waits for
\* the socket manager, with the port free of other processes, binds the port.
C5_RebindSucceeds ==
    (lastOp.op = "OnIRCConnecting" /\ lastOp.wasClosing /\ lastOp.bPortFree) =>
        lastOp.bind = "ok"

\* C6: an OnIRCConnecting for a network already in the set leaves the set
\* and the listener unchanged and IncreaseUseCount returns false; removing a
\* network that is not in the set leaves the set and the listener unchanged,
\* closes nothing, and DecreaseUseCount returns false for it.
C6_Idempotent ==
    /\ [](\A n \in Networks \ m_activeUsers :
             /\ ~DecreaseUseCount(m_activeUsers, n).ret
             /\ DecreaseUseCount(m_activeUsers, n).users = m_activeUsers)
    /\ [][ /\ (lastOp'.op = "OnIRCConnecting" /\ lastOp'.arg \in m_activeUsers) =>
                 /\ m_activeUsers' = m_activeUsers
                 /\ m_identServer' = m_identServer
                 /\ lastOp'.ret = "false"
           /\ (lastOp'.op \in DeregisterOps /\ lastOp'.arg \notin m_activeUsers) =>
                 /\ m_activeUsers' = m_activeUsers
                 /\ m_identServer' = m_identServer
                 /\ closingListener' = closingListener
                 /\ closeEvents' = closeEvents
                 /\ ~lastOp'.closed
                 /\ lastOp'.ret # "true"
                 /\ (m_identServer # NULL => lastOp'.ret = "false")
         ]_vars

\* C6 witness: a network that was not registered has just been removed from
\* an open listener.
C6_Witness ==
    /\ lastOp.op = "OnIRCDisconnected"
    /\ lastOp.ret = "false"
    /\ m_identServer # NULL

\* C7: no request line faults the host: ReadLine never runs GetResponse on
\* a listener that is gone.
C7_NoFault == ~hostFaulted

(***************************************************************************)
(* Properties of the resolver (specification SpecResolve).                 *)
\* C14: a connection is accepted only if m_activeUsers of the listener it
\* reaches is not empty when it arrives; with the set empty, and so at the
\* listener that is closed and not yet removed, it is rejected, and a
\* rejected connection is never written to.
C14_AcceptOnlyInUse ==
    /\ [](\A c \in ConnIds : conns[c].st = "rejected" => conns[c].wire = <<>>)
    /\ [][ lastOp'.op = "Accept" =>
              LET sock == conns'[lastOp'.arg]
              IN  /\ sock.st \in {"accepted", "rejected"}
                  /\ sock.st = "accepted" =>
                        (m_activeUsers # {} /\ m_identServer # NULL)
                  /\ m_activeUsers = {} => sock.st = "rejected"
         ]_vars

\* C14 witness: a connection arrived at the closed listener before the
\* socket manager removed it, and was rejected.
C14_Witness ==
    /\ lastOp.op = "Accept"
    /\ conns[lastOp.arg].st = "rejected"
    /\ closingListener
    /\ m_identServer = NULL

\* C15: a connection is written to at most once; it is closed exactly when
\* its one reply, ended by CR LF, was written, and that reply answers the
\* one line read on it.
C15_OneReply ==
    \A c \in ConnIds :
        /\ Len(conns[c].wire) <= 1
        /\ conns[c].st = "closed" <=> Len(conns[c].wire) = 1
        /\ conns[c].st = "closed" =>
              conns[c].wire[1] = GetResponse(registry, conns[c].sLine,
                                             conns[c].sLocalIP,
                                             conns[c].sRemoteIP) \o "\r\n"

\* C15 witness: a connection was answered and closed, and other handlers
\* have run since.
C15_Witness ==
    /\ lastOp.op = "OnIRCConnecting"
    /\ \E c \in ConnIds : conns[c].st = "closed" /\ Len(conns[c].wire) = 1

\* C17: a step of ReadLine, which calls GetResponse, leaves m_activeUsers,
\* m_identServer and m_listenFailed as they were, and with them the listener
\* waiting to be closed and the registry.
C17_ResolverFrame ==
    [][ lastOp'.op = "ReadLine" =>
           UNCHANGED <<m_activeUsers, m_identServer, m_listenFailed,
                       closingListener, openEvents, closeEvents, registry>>
      ]_vars

\* C17 witness: a request was resolved, the two slots are written and the
\* listener and its set are still there.
C17_Witness ==
    /\ lastOp.op = "ReadLine"
    /\ m_sLastReply # ""
    /\ m_sLastRequest # ""
    /\ m_identServer # NULL
    /\ m_activeUsers # {}

C20_DeletedNotInSet ==
    /\ lastOp.op = "OnDeleteUser" =>
          \A n \in Networks : OwnerOf(n) = lastOp.arg => n \notin m_activeUsers
    /\ lastOp.op = "OnDeleteNetwork" => lastOp.arg \notin m_activeUsers

\* C20 witness: OnDeleteUser took the last of the user's networks out of
\* the set, and the listener stays open for another user's network.
C20_Witness ==
    /\ lastOp.op = "OnDeleteUser"
    /\ Len(GetNetworks(lastOp.arg)) >= 2
    /\ lastOp.ret = "true"
    /\ ~lastOp.closed
    /\ m_activeUsers # {}

(***************************************************************************)

\* The connection records of the registry in enumeration order: the
\* sockets that exist, each with the ident of its user.
RECURSIVE RecordsOfUser(_, _, _)
RecordsOfUser(sIdent, networks, k) ==
    IF k > Len(networks) THEN <<>>
    ELSE (IF networks[k].present
          THEN <<[sIdent |-> sIdent, pSock |-> networks[k]]>> ELSE <<>>)
         \o RecordsOfUser(sIdent, networks, k + 1)

RECURSIVE RecordsFrom(_, _)
RecordsFrom(userMap, u) ==
    IF u > Len(userMap) THEN <<>>
    ELSE RecordsOfUser(userMap[u].sIdent, userMap[u].networks, 1)
         \o RecordsFrom(userMap, u + 1)

Records == RecordsFrom(registry, 1)

\* The connections whose request line was answered.
Answered == {c \in ConnIds : conns[c].st = "closed" /\ conns[c].wire # <<>>}

\* A request line is well-formed when both ports were read from it.
WellFormed(c) == Sscanf(conns[c].sLine).n = 2

\* The query of connection c.
QueryOf(c) ==
    LET sc == Sscanf(conns[c].sLine)
    IN  [uLocalPort |-> sc.uLocalPort, uRemotePort |-> sc.uRemotePort,
         sSocketIP |-> conns[c].sLocalIP, sRemoteIP |-> conns[c].sRemoteIP]

\* Positions of the records that exact-match, and of those that
\* fallback-match, the query of connection c.
ExactOf(c) ==
    LET q == QueryOf(c)
        recs == Records
    IN  {i \in 1..Len(recs) : ExactMatch(recs[i].pSock, q)}
FallbackOf(c) ==
    LET q == QueryOf(c)
        recs == Records
    IN  {i \in 1..Len(recs) : FallbackMatch(recs[i].pSock, q)}

Min(S) == CHOOSE x \in S : \A y \in S : x <= y
Max(S) == CHOOSE x \in S : \A y \in S : x >= y

\* What is written to connection c when the answer is USERID for sIdent.
UserIdWire(c, sIdent) ==
    LET q == QueryOf(c)
    IN  << ToString(q.uLocalPort) \o ", " \o ToString(q.uRemotePort)
           \o " : USERID : UNIX : " \o sIdent \o "\r\n" >>

\* C8: when some record exact-matches a well-formed query, the reply
\* carries the identity of an exact-matching record.
C8_ExactBeatsFallback ==
    \A c \in Answered :
        (WellFormed(c) /\ ExactOf(c) # {}) =>
            \E i \in ExactOf(c) : conns[c].wire = UserIdWire(c, Records[i].sIdent)

\* C8 witness: a record of another user that only fallback-matches is
\* enumerated before the exact match.
C8_Witness ==
    \E c \in Answered :
        /\ WellFormed(c)
        /\ \E i \in ExactOf(c), j \in FallbackOf(c) \ ExactOf(c) :
              j < i /\ Records[j].sIdent # Records[i].sIdent

C10_AnyExact ==
    \A c \in Answered :
        WellFormed(c) =>
            \A i \in ExactOf(c) : conns[c].wire = UserIdWire(c, Records[i].sIdent)

\* C10 amended: the reply carries the identity of the first exact-matching
\* record in enumeration order.
C10_FirstExact ==
    \A c \in Answered :
        (WellFormed(c) /\ ExactOf(c) # {}) =>
            conns[c].wire = UserIdWire(c, Records[Min(ExactOf(c))].sIdent)

\* C10 witness: two users hold records that exact-match the query.
C10_Witness ==
    \E c \in Answered :
        /\ WellFormed(c)
        /\ \E i, j \in ExactOf(c) : Records[i].sIdent # Records[j].sIdent

(***************************************************************************)
(* Request lines as the protocol defines them: a port, a comma and a port, *)
(* each a decimal number of an unsigned 16-bit range, with optional white  *)
(* space around them and nothing else.                                     *)
(***************************************************************************)

\* The number spelled by the digits from position i on, without a limit.
RECURSIVE DecimalAt(_, _, _)
DecimalAt(s, i, acc) ==
    IF i <= Len(s) /\ IsDigit(s[i])
    THEN DecimalAt(s, i + 1, acc * 10 + DigitVal(s[i]))
    ELSE [val |-> acc, next |-> i]

\* shape: the line is two decimal numbers around a comma and nothing else.
PortPair(s) ==
    LET i1 == SkipSpace(s, 1)
        a == DecimalAt(s, i1, 0)
        i2 == SkipSpace(s, a.next)
        bComma == i2 <= Len(s) /\ s[i2] = ","
        i3 == SkipSpace(s, i2 + 1)
        b == DecimalAt(s, i3, 0)
        i4 == SkipSpace(s, b.next)
    IN  [shape |-> a.next > i1 /\ bComma /\ b.next > i3 /\ i4 > Len(s),
         localPort |-> a.val, remotePort |-> b.val]

\* The line is a pair of ports of the unsigned 16-bit range.
IsPortPair(s) ==
    LET p == PortPair(s)
    IN  p.shape /\ p.localPort < UShortRange /\ p.remotePort < UShortRange

\* The line is a pair of numbers of which one is no port.
IsOutOfRange(s) ==
    LET p == PortPair(s)
    IN  p.shape /\ (p.localPort >= UShortRange \/ p.remotePort >= UShortRange)

\* The query a pair of ports on connection c stands for.
PortPairQuery(c) ==
    LET p == PortPair(conns[c].sLine)
    IN  [uLocalPort |-> p.localPort, uRemotePort |-> p.remotePort,
         sSocketIP |-> conns[c].sLocalIP, sRemoteIP |-> conns[c].sRemoteIP]

\* The records that exact-match or fallback-match the query q.
MatchesOf(q) ==
    LET recs == Records
    IN  {i \in 1..Len(recs) :
            ExactMatch(recs[i].pSock, q) \/ FallbackMatch(recs[i].pSock, q)}

\* What is written for an error sInfo with the ports uLocalPort, uRemotePort.
ErrorWire(uLocalPort, uRemotePort, sInfo) ==
    << ToString(uLocalPort) \o ", " \o ToString(uRemotePort)
       \o " : ERROR : " \o sInfo \o "\r\n" >>

\* Connection c was answered ERROR / INVALID-PORT, whatever the ports.
IsInvalidPort(c) ==
    LET q == QueryOf(c)
    IN  conns[c].wire = ErrorWire(q.uLocalPort, q.uRemotePort, "INVALID-PORT")

\* C11: every request line that is not a pair of ports is answered
\* ERROR / INVALID-PORT.
C11_MalformedIsInvalidPort ==
    \A c \in Answered : ~IsPortPair(conns[c].sLine) => IsInvalidPort(c)

\* C12: when the request line fails to parse, both port fields of the
\* reply are 0.
C12_FailedParsePortsZero ==
    \A c \in Answered :
        ~WellFormed(c) => conns[c].wire = ErrorWire(0, 0, "INVALID-PORT")

\* C13: a pair of ports is answered ERROR / NO-USER, with the two ports of
\* the line, if and only if no record exact-matches or fallback-matches it.
C13_NoUserIffNoMatch ==
    \A c \in Answered :
        IsPortPair(conns[c].sLine) =>
            LET q == PortPairQuery(c)
            IN  (conns[c].wire = ErrorWire(q.uLocalPort, q.uRemotePort, "NO-USER"))
                    <=> (MatchesOf(q) = {})

\* C13 witness: the registry holds connections, none of which matches the
\* pair of ports that was answered.
C13_Witness ==
    \E c \in Answered :
        /\ IsPortPair(conns[c].sLine)
        /\ Len(Records) >= 2
        /\ MatchesOf(PortPairQuery(c)) = {}
        /\ conns[c].sLocalIP = IpA

\* C19: a line with a number that is no port is answered
\* ERROR / INVALID-PORT.
C19_OutOfRangeIsInvalidPort ==
    \A c \in Answered : IsOutOfRange(conns[c].sLine) => IsInvalidPort(c)

(***************************************************************************)
(* Properties of the comparison of addresses (specification SpecAddr).     *)
(***************************************************************************)

\* An address without one leading "::ffff:".
StripMapped(s) ==
    IF Len(s) >= 7 /\ SubSeq(s, 1, 7) = <<":", ":", "f", "f", "f", "f", ":">>
    THEN SubSeq(s, 8, Len(s))
    ELSE s

\* An address with its capital hexadecimal digits made small.
FoldHex(s) ==
    [i \in 1..Len(s) |->
        CASE s[i] = "A" -> "a" [] s[i] = "B" -> "b" [] s[i] = "C" -> "c"
          [] s[i] = "D" -> "d" [] s[i] = "E" -> "e" [] s[i] = "F" -> "f"
          [] OTHER -> s[i]]

\* The address the one IRC socket of the registry is bound to.
RegistryAddr == registry[1].networks[1].localIP

\* The examples of the comparison, and its symmetry.
AddrExamples ==
    /\ AreIPStringsEqual(IpAMapped, IpA)
    /\ ~AreIPStringsEqual(IpA, IpB)
    /\ \A a, b \in Addrs : AreIPStringsEqual(a, b) <=> AreIPStringsEqual(b, a)

====
